---------------------------- MODULE Spec2Model ----------------------------
(***************************************************************************)
(* A model of scripts/transcribe.cpp: the command-line transcription       *)
(* driver (whisper_params_parse, main) and the transcript writer           *)
(* (output_transcription).                                                 *)
(*                                                                         *)
(* Strings are sequences of chunks.  Every character the code inspects on  *)
(* its own ('-', '/', '.', ' ') is a chunk of its own; a run of other      *)
(* characters is one chunk ("data", "wav", "transcriptions").              *)
(* C++ indices are 0-based, sequences here are 1-based: C index i is       *)
(* element i + 1.                                                          *)
(*                                                                         *)
(* Of the options, -di, -nt and -f are modelled, with positional inputs    *)
(* and an unknown option; the options that only set engine parameters,     *)
(* the language check and the prompt do not touch the state modelled here. *)
(* The recognizer, the WAV parser and the file system are the environment: *)
(* each of their results is a nondeterministic choice.                     *)
(***************************************************************************)
EXTENDS Integers, Sequences, FiniteSets, TLC

\* ------------------------------------------------------------- bounds

MaxArgs == 3          \* command-line arguments after argv[0]
MaxFrames == 2        \* PCM frames a WAV container declares
MaxSegments == 4      \* segments of one recognizer result (writer alone)
MaxRunSegments == 3   \* segments of one recognizer result inside a full run

\* ---------------------------------------------------- program constants

EXIT_SUCCESS == 0
EXIT_NO_INPUT == 2
EXIT_INIT == 3
EXIT_STDIN_WAV == 4
EXIT_FILE_WAV == 5
EXIT_CHANNELS == 6
EXIT_DIARIZE == 6
EXIT_RATE == 8
EXIT_BITS == 9
EXIT_INFERENCE == 10
WHISPER_SAMPLE_RATE == 16000
BITS_PER_SAMPLE == 16

\* std::terminate after an uncaught exception: abort(), SIGABRT
StatusAbort == 128 + 6
\* an access outside an object that the build turns into a fault: SIGSEGV
StatusFault == 128 + 11

\* ------------------------------------------------------------ strings

DASH == <<"-">>
DATA == <<"data">>
TRANSCRIPTIONS == <<"transcriptions">>
SUFFIX == <<"-", "transcription", ".", "json">>

A_DI == <<"-", "di">>
A_NT == <<"-", "nt">>
A_F == <<"-", "f">>
A_UNKNOWN == <<"-", "zz">>
P_DATA == <<"data", "/", "s", "/", "a", ".", "wav">>
P_BAK == <<"data", ".", "bak", "/", "s", "/", "b", ".", "wav">>
P_OTHER == <<"other", "/", "s", "/", "c", ".", "wav">>

Tokens == {A_DI, A_NT, A_F, A_UNKNOWN, DASH, P_DATA, P_BAK, P_OTHER}

\* all sequences over S of length 0..n
SeqsUpTo(S, n) == UNION {[1..k -> S] : k \in 0..n}

\* the largest index of chunk c in s, 0 when there is none (std::string::rfind)
LastIndexOf(s, c) ==
  LET I == {k \in 1..Len(s) : s[k] = c}
  IN IF I = {} THEN 0 ELSE CHOOSE k \in I : \A j \in I : j <= k

\* s without its trailing '/' chunks, the root "/" kept
RECURSIVE StripSlashes(_)
StripSlashes(s) ==
  IF Len(s) > 1 /\ s[Len(s)] = "/" THEN StripSlashes(SubSeq(s, 1, Len(s) - 1))
  ELSE s

\* std::filesystem::path::filename
Filename(p) == SubSeq(p, LastIndexOf(p, "/") + 1, Len(p))

\* std::filesystem::path::parent_path
ParentPath(p) ==
  LET k == LastIndexOf(p, "/")
  IN IF k = 0 THEN <<>>
     ELSE IF k = 1 THEN <<"/">>
     ELSE StripSlashes(SubSeq(p, 1, k - 1))

\* std::filesystem::path::stem: the filename without its extension; "." and
\* "..", a name without a period and a name whose only period leads have none
Stem(p) ==
  LET fn == Filename(p)
      d == LastIndexOf(fn, ".")
  IN IF fn = <<".">> \/ fn = <<".", ".">> \/ d <= 1 THEN fn
     ELSE SubSeq(fn, 1, d - 1)

\* std::filesystem::path operator/ with a relative right operand
PathAppend(p, q) ==
  IF p = <<>> THEN q
  ELSE IF p[Len(p)] = "/" THEN p \o q
  ELSE p \o <<"/">> \o q

\* main: const auto grandparent = fpath.parent_path().parent_path()
GrandParent(p) == ParentPath(ParentPath(p))

\* main: grandparent.stem() != "data" is false
LayoutOk(p) == Stem(GrandParent(p)) = DATA

\* a variant that puts transcriptions inside the input's own directory
OutPath_Parent(p) ==
  PathAppend(PathAppend(ParentPath(p), TRANSCRIPTIONS), Stem(p) \o SUFFIX)

\* main: grandparent / "transcriptions" / (fpath.stem().string() + "-transcription.json")
OutPath(p) == PathAppend(PathAppend(GrandParent(p), TRANSCRIPTIONS), Stem(p) \o SUFFIX)

\* ------------------------------------------------------------- segments

T_WORD == <<" ", "a">>
T_CONT == <<"b">>
T_EMPTY == <<>>
T_TWOSP == <<" ", " ", "c">>
Texts == {T_WORD, T_CONT, T_EMPTY, T_TWOSP}
Times == {100, 250}

Segment == [text : Texts, t0 : Times]
\* the segments drawn inside a full run, where only their leading chunk matters
RunSegment == [text : {T_WORD, T_CONT, T_EMPTY}, t0 : {100}]
\* segment 0 of a result: the empty first entry
Sentinel == [text |-> <<>>, t0 |-> 0]

\* the results whisper_full_parallel can leave in the context: none, or the
\* sentinel followed by up to n - 1 segments
SegmentSeqs(S, n) ==
  {<<>>} \cup {<<Sentinel>> \o s : s \in SeqsUpTo(S, n - 1)}

\* output_transcription: text[0] == ' '
StartsWithSpace(text) == Len(text) > 0 /\ text[1] = " "

\* a variant that skips every leading space
RECURSIVE SkipOneChar_All(_)
SkipOneChar_All(text) ==
  IF Len(text) > 0 /\ text[1] = " " THEN SkipOneChar_All(Tail(text)) ELSE text

\* output_transcription: text = text + sizeof(char)
SkipOneChar(text) == Tail(text)

\* output_transcription: const double time = start / 100, as seconds and
\* hundredths of a second
TimeOf(start) == [s |-> start \div 100, cs |-> start % 100]

\* one piece of the text written to the transcript file
Piece(k, text, time) == [k |-> k, labelText |-> text, time |-> time]
Punct(k) == Piece(k, <<>>, TimeOf(0))
\* fout << "{\"labelText\": " << "\"" << word.first << "\", " << "\"time\": " << word.second << "}"
ObjectOf(word) == Piece("object", word.first, word.second)

NoWav == [channels |-> 0, sampleRate |-> 0, bitsPerSample |-> 0, totalPCMFrameCount |-> 0]

\* --------------------------------------------------------------- state

VARIABLES
  argv, argi,                       \* argv[1..argc-1] and the parse loop's i
  diarize, no_timestamps, fname_inp,\* whisper_params
  pc, f,                            \* position in main, the file loop's f
  wav, wav_data_size, stdin_read,   \* drwav, bytes read from stdin
  pcm16_size, pcm16_read, pcmf32_size,
  segments,                         \* the recognizer's result in ctx
  out_path, seg_i, words, fout, word_k, ot_result,
  outcome, exit_status,             \* how the process ended
  passed, decoded, inferred, opened, open_failed, failed_at,
  bad_word_access, bad_sep_read     \* observations of the run

argVars == <<argv, argi, diarize, no_timestamps, fname_inp>>
audioVars == <<wav, wav_data_size, stdin_read, pcm16_size, pcm16_read, pcmf32_size>>
otVars == <<out_path, seg_i, words, fout, word_k, ot_result>>
endVars == <<outcome, exit_status>>
histVars == <<passed, decoded, inferred, opened, open_failed, failed_at>>
ubVars == <<bad_word_access, bad_sep_read>>
vars == <<argVars, pc, f, audioVars, segments, otVars, endVars, histVars, ubVars>>

\* the state after whisper_params params; in main, for one command line
Init ==
  /\ argv \in SeqsUpTo(Tokens, MaxArgs)
  /\ argi = 1
  /\ diarize = FALSE /\ no_timestamps = FALSE /\ fname_inp = <<>>
  /\ pc = "parse" /\ f = 0
  /\ wav = NoWav /\ wav_data_size = 0 /\ stdin_read = FALSE
  /\ pcm16_size = 0 /\ pcm16_read = (-1) /\ pcmf32_size = 0
  /\ segments = <<>>
  /\ out_path = <<>> /\ seg_i = 0 /\ words = <<>> /\ fout = <<>> /\ word_k = 0
  /\ ot_result = TRUE
  /\ outcome = "running" /\ exit_status = (-1)
  /\ passed = {} /\ decoded = {} /\ inferred = {} /\ opened = {} /\ open_failed = {}
  /\ failed_at = 0
  /\ bad_word_access = FALSE /\ bad_sep_read = FALSE

\* the value each return (or exit) statement of main and of
\* whisper_params_parse hands to the system
StatusOf(kind) ==
  CASE kind = "Success" -> EXIT_SUCCESS
    [] kind = "UnknownArgument" -> EXIT_SUCCESS
    [] kind = "InputAbsent" -> EXIT_NO_INPUT
    [] kind = "EngineInitFailure" -> EXIT_INIT
    [] kind = "StdinReadFailure" -> EXIT_STDIN_WAV
    [] kind = "WavOpenFailure" -> EXIT_FILE_WAV
    [] kind = "UnsupportedChannelLayout" -> EXIT_CHANNELS
    [] kind = "DiarizationRequiresStereo" -> EXIT_DIARIZE
    [] kind = "UnsupportedSampleRate" -> EXIT_RATE
    [] kind = "UnsupportedBitDepth" -> EXIT_BITS
    [] kind = "InferenceFailure" -> EXIT_INFERENCE

\* the process ends with this outcome and exit status
Exit(kind, status) ==
  /\ pc' = "exit"
  /\ outcome' = kind
  /\ exit_status' = status

\* ------------------------------------------------ whisper_params_parse

\* arg[0] != '-': a positional input file
ParsePositional ==
  /\ pc = "parse" /\ argi <= Len(argv)
  /\ ~(Len(argv[argi]) > 0 /\ argv[argi][1] = "-")
  /\ fname_inp' = Append(fname_inp, argv[argi])
  /\ argi' = argi + 1
  /\ UNCHANGED <<argv, diarize, no_timestamps, pc, f, audioVars, segments, otVars,
                 endVars, histVars, ubVars>>

\* -di, --diarize and -nt, --no-timestamps
ParseFlag ==
  /\ pc = "parse" /\ argi <= Len(argv)
  /\ argv[argi] \in {A_DI, A_NT}
  /\ diarize' = (diarize \/ argv[argi] = A_DI)
  /\ no_timestamps' = (no_timestamps \/ argv[argi] = A_NT)
  /\ argi' = argi + 1
  /\ UNCHANGED <<argv, fname_inp, pc, f, audioVars, segments, otVars, endVars,
                 histVars, ubVars>>

\* -f FNAME: params.fname_inp.emplace_back(argv[++i])
ParseFileOption ==
  /\ pc = "parse" /\ argi <= Len(argv)
  /\ argv[argi] = A_F
  /\ argi + 1 <= Len(argv)
  /\ fname_inp' = Append(fname_inp, argv[argi + 1])
  /\ argi' = argi + 2
  /\ UNCHANGED <<argv, diarize, no_timestamps, pc, f, audioVars, segments, otVars,
                 endVars, histVars, ubVars>>

\* -f as the last argument: argv[argc] is a null pointer, and a std::string
\* built from it is undefined; every build ends the process abnormally
ParseFileOptionNull ==
  /\ pc = "parse" /\ argi <= Len(argv)
  /\ argv[argi] = A_F
  /\ argi + 1 > Len(argv)
  /\ \E status \in {StatusAbort, StatusFault} : Exit("Crash", status)
  /\ UNCHANGED <<argVars, f, audioVars, segments, otVars, histVars, ubVars>>

\* any other argument that starts with '-': "unknown argument", usage, exit(0)
ParseUnknown ==
  /\ pc = "parse" /\ argi <= Len(argv)
  /\ Len(argv[argi]) > 0 /\ argv[argi][1] = "-"
  /\ argv[argi] \notin {A_DI, A_NT, A_F}
  /\ Exit("UnknownArgument", StatusOf("UnknownArgument"))
  /\ UNCHANGED <<argVars, f, audioVars, segments, otVars, histVars, ubVars>>

\* the loop ends, whisper_params_parse returns true; main reads argv no more
\* (argv[0] in messages aside)
ParseDone ==
  /\ pc = "parse" /\ argi > Len(argv)
  /\ pc' = "inputs"
  /\ argv' = <<>> /\ argi' = 1
  /\ UNCHANGED <<diarize, no_timestamps, fname_inp, f, audioVars, segments, otVars,
                 endVars, histVars, ubVars>>

\* ---------------------------------------------------------------- main

\* params.fname_inp.empty(): return 2
NoInput ==
  /\ pc = "inputs" /\ fname_inp = <<>>
  /\ Exit("InputAbsent", StatusOf("InputAbsent"))
  /\ UNCHANGED <<argVars, f, audioVars, segments, otVars, histVars, ubVars>>

\* whisper_init_from_file returns nullptr: return 3
InitFail ==
  /\ pc = "inputs" /\ fname_inp # <<>>
  /\ Exit("EngineInitFailure", StatusOf("EngineInitFailure"))
  /\ UNCHANGED <<argVars, f, audioVars, segments, otVars, histVars, ubVars>>

\* whisper_init_from_file returns a context; the file loop starts at f = 0
InitOk ==
  /\ pc = "inputs" /\ fname_inp # <<>>
  /\ pc' = "file"
  /\ f' = 1
  /\ UNCHANGED <<argVars, audioVars, segments, otVars, endVars, histVars, ubVars>>

\* grandparent.stem() != "data": throw std::invalid_argument, which nothing catches
LayoutFail ==
  /\ pc = "file" /\ f <= Len(fname_inp)
  /\ ~LayoutOk(fname_inp[f])
  /\ Exit("LayoutViolation", StatusAbort)
  /\ UNCHANGED <<argVars, f, audioVars, segments, otVars, histVars, ubVars>>

\* the path check passes
LayoutPass ==
  /\ pc = "file" /\ f <= Len(fname_inp)
  /\ LayoutOk(fname_inp[f])
  /\ pc' = "wav"
  /\ passed' = passed \cup {f}
  /\ UNCHANGED <<argVars, f, audioVars, segments, otVars, endVars, decoded, inferred,
                 opened, open_failed, failed_at, ubVars>>

\* fname_inp == "-": fread from stdin until it returns 0, then drwav_init_memory;
\* otherwise drwav_init_file.  The container opens.
OpenWav ==
  /\ pc = "wav"
  /\ decoded' = decoded \cup {f}
  /\ \E ch \in {1, 2, 3}, sr \in {WHISPER_SAMPLE_RATE, 44100}, bits \in {8, BITS_PER_SAMPLE},
        frames \in 0..MaxFrames :
       /\ wav' = [channels |-> ch, sampleRate |-> sr, bitsPerSample |-> bits,
                  totalPCMFrameCount |-> frames]
       /\ IF fname_inp[f] = DASH
          THEN /\ stdin_read' = TRUE
               /\ \E extra \in 1..4 : wav_data_size' = extra + frames * ch * (bits \div 8)
          ELSE /\ stdin_read' = stdin_read
               /\ wav_data_size' = 0
  /\ pc' = "format"
  /\ UNCHANGED <<argVars, f, pcm16_size, pcm16_read, pcmf32_size, segments, otVars,
                 endVars, passed, inferred, opened, open_failed, failed_at, ubVars>>

\* drwav_init_memory fails: return 4; drwav_init_file fails: return 5
OpenWavFail ==
  /\ pc = "wav"
  /\ decoded' = decoded \cup {f}
  /\ IF fname_inp[f] = DASH
     THEN /\ stdin_read' = TRUE
          /\ Exit("StdinReadFailure", StatusOf("StdinReadFailure"))
     ELSE /\ stdin_read' = stdin_read
          /\ Exit("WavOpenFailure", StatusOf("WavOpenFailure"))
  /\ UNCHANGED <<argVars, f, wav, wav_data_size, pcm16_size, pcm16_read, pcmf32_size,
                 segments, otVars, passed, inferred, opened, open_failed, failed_at,
                 ubVars>>

ChannelsOk == wav.channels = 1 \/ wav.channels = 2
DiarizeOk == ~(diarize /\ wav.channels # 2 /\ no_timestamps = FALSE)
RateOk == wav.sampleRate = WHISPER_SAMPLE_RATE
BitsOk == wav.bitsPerSample = BITS_PER_SAMPLE

\* wav.channels != 1 && wav.channels != 2: return 6
FormatChannels ==
  /\ pc = "format" /\ ~ChannelsOk
  /\ Exit("UnsupportedChannelLayout", StatusOf("UnsupportedChannelLayout"))
  /\ UNCHANGED <<argVars, f, audioVars, segments, otVars, histVars, ubVars>>

\* params.diarize && wav.channels != 2 && params.no_timestamps == false: return 6
FormatDiarize ==
  /\ pc = "format" /\ ChannelsOk /\ ~DiarizeOk
  /\ Exit("DiarizationRequiresStereo", StatusOf("DiarizationRequiresStereo"))
  /\ UNCHANGED <<argVars, f, audioVars, segments, otVars, histVars, ubVars>>

\* wav.sampleRate != WHISPER_SAMPLE_RATE: return 8
FormatRate ==
  /\ pc = "format" /\ ChannelsOk /\ DiarizeOk /\ ~RateOk
  /\ Exit("UnsupportedSampleRate", StatusOf("UnsupportedSampleRate"))
  /\ UNCHANGED <<argVars, f, audioVars, segments, otVars, histVars, ubVars>>

\* wav.bitsPerSample != 16: return 9
FormatBits ==
  /\ pc = "format" /\ ChannelsOk /\ DiarizeOk /\ RateOk /\ ~BitsOk
  /\ Exit("UnsupportedBitDepth", StatusOf("UnsupportedBitDepth"))
  /\ UNCHANGED <<argVars, f, audioVars, segments, otVars, histVars, ubVars>>

\* const uint64_t n = wav_data.empty() ? wav.totalPCMFrameCount
\*                                     : wav_data.size()/(wav.channels*wav.bitsPerSample/8)
FrameCount ==
  IF wav_data_size = 0 THEN wav.totalPCMFrameCount
  ELSE wav_data_size \div ((wav.channels * wav.bitsPerSample) \div 8)

\* the largest pcm16 index the mono conversion reads, -1 when it reads none
MonoLastRead(n) ==
  IF n = 0 THEN (-1) ELSE IF wav.channels = 1 THEN n - 1 ELSE 2 * (n - 1) + 1

\* the largest pcm16 index the per-channel conversion reads: pcm16[2*i + 1], i < n
StereoLastRead(n) == IF n = 0 THEN (-1) ELSE 2 * (n - 1) + 1

\* all four checks pass: pcm16.resize(n*wav.channels), the frames are read,
\* pcmf32.resize(n) and the conversion to mono
DecodeMono ==
  /\ pc = "format" /\ ChannelsOk /\ DiarizeOk /\ RateOk /\ BitsOk
  /\ pcm16_size' = FrameCount * wav.channels
  /\ pcmf32_size' = FrameCount
  /\ pcm16_read' = MonoLastRead(FrameCount)
  /\ pc' = "stereo"
  /\ UNCHANGED <<argVars, f, wav, wav_data_size, stdin_read, segments, otVars, endVars,
                 histVars, ubVars>>

\* params.diarize is false: no per-channel buffers
NoDiarize ==
  /\ pc = "stereo" /\ ~diarize
  /\ pc' = "infer"
  /\ wav' = NoWav /\ wav_data_size' = 0
  /\ UNCHANGED <<argVars, f, stdin_read, pcm16_size, pcm16_read, pcmf32_size, segments,
                 otVars, endVars, histVars, ubVars>>

\* params.diarize: pcmf32s[0][i] = pcm16[2*i], pcmf32s[1][i] = pcm16[2*i + 1], i < n.
\* A read past pcm16's end is undefined: the loop goes on with whatever it
\* read, or the process faults.
Diarize ==
  /\ pc = "stereo" /\ diarize
  /\ pcm16_read' = IF StereoLastRead(pcmf32_size) > pcm16_read
                   THEN StereoLastRead(pcmf32_size) ELSE pcm16_read
  /\ \/ /\ pc' = "infer"
        /\ UNCHANGED endVars
     \/ /\ StereoLastRead(pcmf32_size) >= pcm16_size
        /\ Exit("Crash", StatusFault)
  /\ wav' = NoWav /\ wav_data_size' = 0
  /\ UNCHANGED <<argVars, f, stdin_read, pcm16_size, pcmf32_size, segments, otVars,
                 histVars, ubVars>>

\* a variant that gives up the file and goes on with the next one
InferFail_Continue ==
  /\ pc = "infer"
  /\ inferred' = inferred \cup {f}
  /\ failed_at' = f
  /\ f' = f + 1
  /\ pc' = "file"
  /\ UNCHANGED <<argVars, audioVars, segments, otVars, endVars, passed, decoded, opened,
                 open_failed, ubVars>>

\* whisper_full_parallel(...) != 0: "failed to process audio", return 10
InferFail ==
  /\ pc = "infer"
  /\ inferred' = inferred \cup {f}
  /\ failed_at' = f
  /\ Exit("InferenceFailure", StatusOf("InferenceFailure"))
  /\ UNCHANGED <<argVars, f, audioVars, segments, otVars, passed, decoded, opened,
                 open_failed, ubVars>>

\* whisper_full_parallel returns 0 and leaves its segments in ctx; main derives
\* out_path and calls output_transcription(ctx, out_path.c_str())
InferOk ==
  /\ pc = "infer"
  /\ inferred' = inferred \cup {f}
  /\ segments' \in SegmentSeqs(RunSegment, MaxRunSegments)
  /\ out_path' = OutPath(fname_inp[f])
  /\ pc' = "ot_open"
  /\ pcm16_size' = 0 /\ pcm16_read' = (-1) /\ pcmf32_size' = 0
  /\ UNCHANGED <<argVars, f, wav, wav_data_size, stdin_read, seg_i, words, fout, word_k,
                 ot_result, endVars, passed, decoded, opened, open_failed, failed_at,
                 ubVars>>

\* ------------------------------------------------- output_transcription

\* whisper_full_n_segments(ctx)
n_segments == Len(segments)

\* !fout.is_open(): "failed to open ... for writing", return false
OT_OpenFail ==
  /\ pc = "ot_open"
  /\ ot_result' = FALSE
  /\ open_failed' = open_failed \cup {f}
  /\ pc' = "ot_ret"
  /\ UNCHANGED <<argVars, f, audioVars, segments, out_path, seg_i, words, fout, word_k,
                 endVars, passed, decoded, inferred, opened, failed_at, ubVars>>

\* std::ofstream fout(fname) opens (and truncates) the file; words is empty, i = 1
OT_Open ==
  /\ pc = "ot_open"
  /\ opened' = opened \cup {<<f, out_path>>}
  /\ fout' = <<>>
  /\ words' = <<>>
  /\ seg_i' = 1
  /\ pc' = "ot_loop"
  /\ UNCHANGED <<argVars, f, audioVars, segments, out_path, word_k, ot_result, endVars,
                 passed, decoded, inferred, open_failed, failed_at, ubVars>>

\* text[0] == ' ': words.emplace_back(text + 1, time)
OT_NewWord ==
  /\ pc = "ot_loop" /\ seg_i < n_segments
  /\ StartsWithSpace(segments[seg_i + 1].text)
  /\ words' = Append(words, [first |-> SkipOneChar(segments[seg_i + 1].text),
                             second |-> TimeOf(segments[seg_i + 1].t0)])
  /\ seg_i' = seg_i + 1
  /\ UNCHANGED <<argVars, pc, f, audioVars, segments, out_path, fout, word_k, ot_result,
                 endVars, histVars, ubVars>>

\* else, with a word to append to: words[last].first = words[last].first + text
OT_Continue ==
  /\ pc = "ot_loop" /\ seg_i < n_segments
  /\ ~StartsWithSpace(segments[seg_i + 1].text)
  /\ words # <<>>
  /\ words' = [words EXCEPT ![Len(words)].first = @ \o segments[seg_i + 1].text]
  /\ seg_i' = seg_i + 1
  /\ UNCHANGED <<argVars, pc, f, audioVars, segments, out_path, fout, word_k, ot_result,
                 endVars, histVars, ubVars>>

\* else, with words empty: last = words.size() - 1 wraps to SIZE_MAX and
\* words[last] is an access far outside the vector.  Undefined: the process
\* faults, or the read and the write land in stray memory and the loop goes on.
OT_ContinueNoWord ==
  /\ pc = "ot_loop" /\ seg_i < n_segments
  /\ ~StartsWithSpace(segments[seg_i + 1].text)
  /\ words = <<>>
  /\ bad_word_access' = TRUE
  /\ \/ /\ Exit("Crash", StatusFault)
        /\ UNCHANGED seg_i
     \/ /\ seg_i' = seg_i + 1
        /\ UNCHANGED <<pc, endVars>>
  /\ UNCHANGED <<argVars, f, audioVars, segments, out_path, words, fout, word_k,
                 ot_result, histVars, bad_sep_read>>

\* the loop ends: fout << "["
OT_LoopDone ==
  /\ pc = "ot_loop" /\ seg_i >= n_segments
  /\ fout' = <<Punct("[")>>
  /\ word_k' = 1
  /\ pc' = "ot_write"
  /\ UNCHANGED <<argVars, f, audioVars, segments, out_path, seg_i, words, ot_result,
                 endVars, histVars, ubVars>>

\* one word of for (auto &word : words): the object, then
\* if (word != words[n_segments - 1]) fout << ", ".
\* words[n_segments - 1] inside the vector decides it; outside (the memory is
\* reserved, no pair was constructed there) the comparison is undefined: it
\* may come out either way, or fault.
OT_WriteWord ==
  /\ pc = "ot_write" /\ word_k <= Len(words)
  /\ IF n_segments <= Len(words)
     THEN /\ fout' = fout \o <<ObjectOf(words[word_k])>>
                     \o (IF words[word_k] # words[n_segments]
                         THEN <<Punct(", ")>> ELSE <<>>)
          /\ word_k' = word_k + 1
          /\ UNCHANGED <<pc, endVars, bad_sep_read>>
     ELSE /\ bad_sep_read' = TRUE
          /\ \/ /\ fout' = fout \o <<ObjectOf(words[word_k]), Punct(", ")>>
                /\ word_k' = word_k + 1
                /\ UNCHANGED <<pc, endVars>>
             \/ /\ fout' = fout \o <<ObjectOf(words[word_k])>>
                /\ word_k' = word_k + 1
                /\ UNCHANGED <<pc, endVars>>
             \/ /\ fout' = fout \o <<ObjectOf(words[word_k])>>
                /\ Exit("Crash", StatusFault)
                /\ UNCHANGED word_k
  /\ UNCHANGED <<argVars, f, audioVars, segments, out_path, seg_i, words, ot_result,
                 histVars, bad_word_access>>

\* fout << "]"; return true
OT_Close ==
  /\ pc = "ot_write" /\ word_k > Len(words)
  /\ fout' = fout \o <<Punct("]")>>
  /\ ot_result' = TRUE
  /\ pc' = "ot_ret"
  /\ UNCHANGED <<argVars, f, audioVars, segments, out_path, seg_i, words, word_k,
                 endVars, histVars, ubVars>>

OT_Next ==
  \/ OT_OpenFail \/ OT_Open \/ OT_NewWord \/ OT_Continue \/ OT_ContinueNoWord
  \/ OT_LoopDone \/ OT_WriteWord \/ OT_Close

\* ------------------------------------------------------ main, continued

\* output_transcription(ctx, out_path.c_str()); its result is not read.
\* ++f.  The writer's locals are gone, and the segments in ctx are not read
\* again before the next whisper_full_parallel replaces them.
AfterOutput ==
  /\ pc = "ot_ret"
  /\ f' = f + 1
  /\ pc' = "file"
  /\ segments' = <<>>
  /\ out_path' = <<>> /\ seg_i' = 0 /\ words' = <<>> /\ fout' = <<>> /\ word_k' = 0
  /\ ot_result' = TRUE
  /\ UNCHANGED <<argVars, audioVars, endVars, histVars, ubVars>>

\* f reaches params.fname_inp.size(): whisper_free(ctx); return 0
Finish ==
  /\ pc = "file" /\ f > Len(fname_inp)
  /\ Exit("Success", StatusOf("Success"))
  /\ UNCHANGED <<argVars, f, audioVars, segments, otVars, histVars, ubVars>>

Next ==
  \/ ParsePositional \/ ParseFlag \/ ParseFileOption \/ ParseFileOptionNull
  \/ ParseUnknown \/ ParseDone
  \/ NoInput \/ InitFail \/ InitOk
  \/ LayoutFail \/ LayoutPass
  \/ OpenWav \/ OpenWavFail
  \/ FormatChannels \/ FormatDiarize \/ FormatRate \/ FormatBits
  \/ DecodeMono \/ NoDiarize \/ Diarize
  \/ InferFail \/ InferOk
  \/ OT_Next
  \/ AfterOutput \/ Finish

Spec == Init /\ [][Next]_vars

\* ------------------------------------------- output_transcription alone

\* main at its call of output_transcription for the one input data/s/a.wav,
\* with any recognizer result in ctx
InitOT ==
  /\ argv = <<>> /\ argi = 1
  /\ diarize = FALSE /\ no_timestamps = FALSE /\ fname_inp = <<P_DATA>>
  /\ pc = "ot_open" /\ f = 1
  /\ wav = NoWav /\ wav_data_size = 0 /\ stdin_read = FALSE
  /\ pcm16_size = 0 /\ pcm16_read = (-1) /\ pcmf32_size = 0
  /\ segments \in SegmentSeqs(Segment, MaxSegments)
  /\ out_path = OutPath(P_DATA) /\ seg_i = 0 /\ words = <<>> /\ fout = <<>> /\ word_k = 0
  /\ ot_result = TRUE
  /\ outcome = "running" /\ exit_status = (-1)
  /\ passed = {1} /\ decoded = {1} /\ inferred = {1} /\ opened = {} /\ open_failed = {}
  /\ failed_at = 0
  /\ bad_word_access = FALSE /\ bad_sep_read = FALSE

SpecOT == InitOT /\ [][OT_Next]_vars

\* ------------------------------------------------------------ properties

FormatKinds ==
  {"UnsupportedChannelLayout", "DiarizationRequiresStereo", "UnsupportedSampleRate",
   "UnsupportedBitDepth"}
ReturnKinds ==
  FormatKinds \cup {"Success", "UnknownArgument", "InputAbsent", "EngineInitFailure",
                    "StdinReadFailure", "WavOpenFailure", "InferenceFailure"}

\* the segments (as elements 2..m) whose text starts with a space
Starts(m) == {i \in 2..m : StartsWithSpace(segments[i].text)}
\* the k-th of them
KthStart(m, k) == CHOOSE i \in Starts(m) : Cardinality({j \in Starts(m) : j < i}) = k - 1
\* the last segment before the next of them
RunEnd(m, i) ==
  LET later == {j \in Starts(m) : j > i}
  IN IF later = {} THEN m ELSE (CHOOSE j \in later : \A l \in later : j <= l) - 1
\* the texts of segments a..b joined
RECURSIVE JoinTexts(_, _)
JoinTexts(a, b) == IF a > b THEN <<>> ELSE segments[a].text \o JoinTexts(a + 1, b)

\* words is the reference Word list of the first m segments
IsReferenceWords(m) ==
  /\ Len(words) = Cardinality(Starts(m))
  /\ \A k \in 1..Len(words) :
       LET i == KthStart(m, k)
       IN /\ <<" ">> \o words[k].first = JoinTexts(i, RunEnd(m, i))
          /\ words[k].second.cs \in 0..99
          /\ 100 * words[k].second.s + words[k].second.cs = segments[i].t0

FirstRealHasSpace == n_segments >= 2 => StartsWithSpace(segments[2].text)
FirstRealLacksSpace == n_segments >= 2 /\ ~StartsWithSpace(segments[2].text)

\* C1: for a segment sequence whose first non-sentinel segment begins with a
\* space, after every iteration of the loop, and after it, words is the
\* reference Word list of the segments read so far: one Word per segment of
\* index >= 1 that starts with a space, in segment order, its text that
\* segment's text less one leading space followed by the unmodified texts of
\* the segments up to the next such segment, its time that segment's start
\* time over 100; segment 0 contributes nothing.
C1_Assembly ==
  (pc \in {"ot_loop", "ot_write", "ot_ret"} /\ ot_result /\ FirstRealHasSpace)
    => IsReferenceWords(IF pc = "ot_loop" /\ seg_i < n_segments THEN seg_i ELSE n_segments)

C1_Witness ==
  /\ pc = "ot_ret" /\ ot_result /\ FirstRealHasSpace
  /\ Len(words) >= 2
  /\ \E i \in 3..n_segments : ~StartsWithSpace(segments[i].text) /\ segments[i].text # <<>>
  /\ \E i \in 2..n_segments : segments[i].text = T_TWOSP

\* C2: when segment 1 does not begin with a space, assembly ends in a
\* MalformedSegmentStream outcome and does not proceed: no access to a prior
\* Word of an empty word list is performed and nothing is written.
C2_MalformedStream ==
  /\ ~bad_word_access
  /\ (/\ FirstRealLacksSpace
      /\ \/ pc \in {"ot_write", "exit"}
         \/ (pc = "ot_loop" /\ seg_i > 1)
         \/ (pc = "ot_ret" /\ ot_result))
       => (outcome = "MalformedSegmentStream" /\ fout = <<>>)

\* the text of a Word sequence: "[", the objects in order with a separator
\* between consecutive ones and none after the last, "]"
IsArrayText(text, ws) ==
  /\ Len(text) = (IF ws = <<>> THEN 2 ELSE 2 * Len(ws) + 1)
  /\ text[1] = Punct("[")
  /\ text[Len(text)] = Punct("]")
  /\ \A k \in 1..Len(ws) : text[2 * k] = ObjectOf(ws[k])
  /\ \A k \in 1..(Len(ws) - 1) : text[2 * k + 1] = Punct(", ")

\* C3: the text written for the assembled Words is the separated, bracketed
\* array, and deciding on a separator never reads outside the Word list.
C3_Serialization ==
  /\ ~bad_sep_read
  /\ (pc = "ot_ret" /\ ot_result) => IsArrayText(fout, words)

\* C4: decoding and inference of a file start only after its path check has
\* passed, and the check passes exactly when the final component of the
\* grandparent directory is the name data; any other grandparent ends the run
\* in LayoutViolation with that file and every later one untouched.
C4_LayoutGate ==
  /\ (decoded \cup inferred) \subseteq passed
  /\ \A j \in passed : Filename(GrandParent(fname_inp[j])) = DATA
  /\ \A j \in 1..Len(fname_inp) :
       (pc # "parse" /\ Filename(GrandParent(fname_inp[j])) # DATA)
         => /\ \A k \in j..Len(fname_inp) : k \notin (decoded \cup inferred)
            /\ (f >= j /\ pc # "file" => outcome = "LayoutViolation")
  /\ (outcome = "LayoutViolation" => Filename(GrandParent(fname_inp[f])) # DATA)

\* p is <grandparent>/transcriptions/<stem>-transcription.json for the input
\* <grandparent>/<subdir>/<file>
IsTranscriptPath(p, input) ==
  \E a, b \in 1..Len(input) :
    /\ a < b /\ input[a] = "/" /\ input[b] = "/"
    /\ \A k \in (a + 1)..Len(input) : k # b => input[k] # "/"
    /\ LET grandparent == SubSeq(input, 1, a - 1)
           file == SubSeq(input, b + 1, Len(input))
           dots == {k \in 2..Len(file) : file[k] = "."}
           stem == IF dots = {} THEN file
                   ELSE SubSeq(file, 1, (CHOOSE k \in dots : \A l \in dots : l <= k) - 1)
       IN p = grandparent \o <<"/">> \o TRANSCRIPTIONS \o <<"/">> \o stem \o SUFFIX

\* C5: for an input that passed the layout check, the writer is called with,
\* and opens, <grandparent>/transcriptions/<input-stem>-transcription.json
\* and no other path.
C5_OutputPath ==
  /\ \A e \in opened : IsTranscriptPath(e[2], fname_inp[e[1]])
  /\ pc \in {"ot_open", "ot_loop", "ot_write", "ot_ret"}
       => IsTranscriptPath(out_path, fname_inp[f])

C5_Witness ==
  /\ pc = "exit" /\ outcome = "Success"
  /\ \E e \in opened : fname_inp[e[1]] = P_DATA

\* C6: a run that ends in one of the four audio format violations ends with
\* a status that no other violation kind, no other failure class and success
\* end with.
C6_DistinctStatus ==
  (pc = "exit" /\ outcome \in FormatKinds)
    => \A k \in ReturnKinds \ {outcome} : exit_status # StatusOf(k)

\* C7: the input - is accepted as the stdin sentinel: neither argument
\* parsing nor the path check turns it down.
C7_StdinAccepted ==
  /\ (outcome = "UnknownArgument" => argv[argi] # DASH)
  /\ (outcome = "LayoutViolation" => fname_inp[f] # DASH)

\* the stdin branch of the loader is never entered
StdinNeverRead == ~stdin_read

\* C8 as stated: after the recognizer fails on file k, no transcript is
\* written for k and every later file is attempted before the run ends.
C8_LaterFilesAttempted ==
  (pc = "exit" /\ failed_at # 0)
    => /\ \A e \in opened : e[1] # failed_at
       /\ f >= Len(fname_inp)

\* C8 as amended: when the recognizer returns a non-zero status for file k,
\* the run ends there with the InferenceFailure status, no transcript is
\* written for file k, and no later file is attempted.
C8_FailureEndsRun ==
  failed_at # 0
    => /\ pc = "exit" /\ outcome = "InferenceFailure"
       /\ exit_status = EXIT_INFERENCE
       /\ f = failed_at
       /\ \A e \in opened : e[1] < failed_at
       /\ failed_at \notin open_failed
       /\ \A j \in (failed_at + 1)..Len(fname_inp) : j \notin (passed \cup decoded \cup inferred)

C8_Witness ==
  /\ failed_at # 0 /\ failed_at < Len(fname_inp)
  /\ LayoutOk(fname_inp[failed_at + 1])

\* C9: a run in which a transcript could not be opened never ends with the
\* success status.
C9_OpenFailureFatal ==
  (pc = "exit" /\ open_failed # {}) => exit_status # EXIT_SUCCESS

\* C10: every index read from the decoded PCM buffer is inside it.
C10_PcmReadsInBounds == pcm16_read < pcm16_size

=============================================================================
